---- MODULE Spec2Model ----
(***************************************************************************)
(* State-machine model of the BaslerCameraAdapter acquisition core:        *)
(*   - CameraThread (BaslerCameraThread.py): the acquisition worker, the   *)
(*     latest-image slot, the readers and the frame-change waiter;         *)
(*   - BaslerCamera (BaslerCamera.py): the handle around a pylon camera;   *)
(*   - main.py: the globals CAMERA / CAMERA_THREAD and the functions that  *)
(*     create, reuse, stop and replace handle and worker.                  *)
(* The pylon SDK is the environment: its calls succeed, time out or raise  *)
(* nondeterministically.                                                   *)
(***************************************************************************)
EXTENDS Integers, Sequences, FiniteSets, TLC

(* ---------------- bounds of the model ---------------- *)
\* loop iterations one worker may start
MaxTicks == 3
\* CameraThread instances that may be constructed
MaxThreads == 2
\* BaslerCamera instances that may be constructed
MaxHandles == 2
\* ticks a worker makes where two handlers run at a time
MaxPairTicks == 1

(* ---------------- program constants ---------------- *)
\* CameraThread.__init__: max_retries default
max_retries == 3
\* CameraThread.__init__: self._backoff_factor
backoff_factor == 5
\* main.py T_SLEEP = 1 / FRAMES_PER_SECOND(10), in microseconds
T_SLEEP == 100000
\* CameraThread.get_image: t_wait_min default 0.1 s, in microseconds
t_wait_min == 100000
\* CameraThread.get_image: slack added to the attempt budget
n_slack == 2

Max2(a, b) == IF a >= b THEN a ELSE b
Min2(a, b) == IF a <= b THEN a ELSE b

(* ---------------- values ---------------- *)
\* Python None for the optional fields of a request / device
None == "None"

\* latest_image = None
NoRec == [image |-> 0, timestamp |-> 0, counter |-> 0]
IsNone(r) == r.image = 0

\* A camera reference handed to CameraThread: the BaslerCamera wrapper itself
\* (what take_picture passes) or the pylon.InstantCamera inside it (the type
\* CameraThread.__init__ declares).
Wrapper(h) == <<"BaslerCamera", h>>
Pylon(h) == <<"InstantCamera", h>>
NoCam == <<"None", 0>>
IsPylon(ref) == ref[1] = "InstantCamera"

Handles == 1..MaxHandles
Threads == 1..MaxThreads
\* request handlers run in a thread pool: two of them at a time
Clients == {"c1", "c2"}
\* the handler of a specification in which requests come one after another
Solo == {"c1"}

VARIABLES
  CAMERA,         \* main.CAMERA: 0 (None) or a handle id
  CAMERA_THREAD,  \* main.CAMERA_THREAD: 0 (None) or a thread id
  nHandles,       \* BaslerCamera instances constructed so far
  nThreads,       \* CameraThread instances constructed so far
  hnd,            \* hnd[h]: the BaslerCamera instance h and its pylon camera
  thr,            \* thr[t]: the CameraThread instance t
  cl,             \* cl[c]: the client (request handler) c
  hist            \* observations kept for the properties

vars == <<CAMERA, CAMERA_THREAD, nHandles, nThreads, hnd, thr, cl, hist>>

(* ======================================================================= *)
(* Requests (DataModels.BaslerCameraParams)                                *)
(* ======================================================================= *)
\* serial_number None and ip_address None: the emulated camera
ReqEmu == [serial_number |-> None, transmission_type |-> "Unicast",
           destination_ip_address |-> None, destination_port |-> None,
           pixel_format |-> "Mono8", acquisition_mode |-> "Continuous",
           convert_to_format |-> "null",
           timeout_ms |-> 5000, exposure_time_microseconds |-> 1000]
\* a GigE camera, every transport field given
ReqGigE == [serial_number |-> "sn1", transmission_type |-> "Multicast",
            destination_ip_address |-> "239.0.0.1", destination_port |-> "5001",
            pixel_format |-> "Mono8", acquisition_mode |-> "Continuous",
            convert_to_format |-> "null",
            timeout_ms |-> 5000, exposure_time_microseconds |-> 1000]
\* the same camera with a longer exposure time
ReqGigELong == [ReqGigE EXCEPT !.exposure_time_microseconds = 250000]
\* another camera (USB), field defaults of the data model
ReqUsb == [serial_number |-> "sn2", transmission_type |-> "Unicast",
           destination_ip_address |-> None, destination_port |-> None,
           pixel_format |-> "Mono8", acquisition_mode |-> "SingleFrame",
           convert_to_format |-> "null",
           timeout_ms |-> 5000, exposure_time_microseconds |-> 1000]
\* a GigE request whose connect fails: a destination address without Multicast
ReqGigEBad == [ReqGigE EXCEPT !.transmission_type = "Unicast"]
\* the GigE camera asked for single frames, and the same with a longer exposure time
ReqGigESingle == [ReqGigE EXCEPT !.acquisition_mode = "SingleFrame"]
ReqGigESingleLong == [ReqGigESingle EXCEPT !.exposure_time_microseconds = 250000]
\* the USB camera asked for with the same conflict: a destination address
\* without Multicast
ReqUsbBad == [ReqUsb EXCEPT !.destination_ip_address = "239.0.0.1"]
\* the single-frame GigE request with the lowest timeout the data model admits
\* (timeout_ms: ge=200), shorter than its exposure time of 250 ms
ReqGigEShort == [ReqGigESingleLong EXCEPT !.timeout_ms = 200]
\* the single-frame GigE request with an output conversion
ReqGigERGB == [ReqGigESingle EXCEPT !.convert_to_format = "RGB"]
Requests == {ReqEmu, ReqGigE, ReqGigELong, ReqUsb, ReqGigEBad, ReqGigESingle, ReqGigESingleLong,
             ReqUsbBad, ReqGigEShort, ReqGigERGB}

\* mutant: only the identity fields are compared
CompareFields_Identity == {"acquisition_mode", "serial_number", "pixel_format",
                           "transmission_type", "destination_ip_address", "destination_port"}

\* fields get_basler_camera compares: every dumped field but the exposure time
\* (ip_address and subnet_mask are None in every request here and are left out)
CompareFields == {"acquisition_mode", "serial_number", "pixel_format", "timeout_ms",
                  "convert_to_format",
                  "transmission_type", "destination_ip_address", "destination_port"}

(* ======================================================================= *)
(* BaslerCamera (BaslerCamera.py)                                          *)
(* ======================================================================= *)
\* model name of the device behind a serial number: "-..g" GigE, else USB
DeviceKind(serial) == IF serial = "sn1" THEN "gige" ELSE "usb"

\* BaslerCamera.__init__: only stores its arguments, _camera = None
NewHandle(p) ==
  [serial_number |-> p.serial_number,
   timeout_ms |-> IF p.timeout_ms # 0 THEN p.timeout_ms ELSE 1000,
   convert_to_format |-> p.convert_to_format,
   _transmission_type |-> p.transmission_type,
   _destination_ip_address |-> p.destination_ip_address,
   _destination_port |-> p.destination_port,
   _acquisition_mode |-> p.acquisition_mode,
   _pixel_format |-> p.pixel_format,
   _exposure_time_microseconds |-> p.exposure_time_microseconds,
   _camera |-> FALSE,
   IsOpen |-> FALSE, IsGrabbing |-> FALSE,
   TransmissionType |-> "Unicast", DestinationAddr |-> "0.0.0.0", DestinationPort |-> "0",
   AcquisitionMode |-> "Continuous", PixelFormat |-> "Mono8", ExposureTimeAbs |-> 5000]

\* a handle id that has not been constructed
NoHandle == NewHandle(ReqEmu)

\* BaslerCamera.__bool__
Bool(H) == H._camera

\* BaslerCamera.is_emulated
is_emulated(H) == H.serial_number = None

\* BaslerCamera.is_gige
is_gige(H) == H._camera /\ ~is_emulated(H) /\ DeviceKind(H.serial_number) = "gige"

\* BaslerCamera.is_open
is_open(H) == IF Bool(H) THEN H.IsOpen ELSE FALSE

\* BaslerCamera.create_camera: a fresh pylon.InstantCamera with device defaults
create_camera(H) == [H EXCEPT !._camera = TRUE]

\* BaslerCamera.open (the caller has checked Bool(H))
open(H) == [H EXCEPT !.IsOpen = TRUE]

\* BaslerCamera.close: stop_grabbing, then Close
close(H) == IF H._camera THEN [H EXCEPT !.IsGrabbing = FALSE, !.IsOpen = FALSE] ELSE H

\* BaslerCamera.disconnect
disconnect(H) == close(H)

\* the StreamGrabber transport nodes exist on GigE devices only
HasTransportNodes(H) == DeviceKind(H.serial_number) = "gige"

\* Property getters. Each returns [ok, val, H]: ok = FALSE when the getter
\* raises; H is the handle after the getter's side effect (self.open()).
Got(v, H) == [ok |-> TRUE, val |-> v, H |-> H]
Raised(H) == [ok |-> FALSE, val |-> None, H |-> H]

\* BaslerCamera.transmission_type (getter)
get_transmission_type(H) ==
  IF is_emulated(H) THEN Got(None, H)
  ELSE IF ~Bool(H) THEN Raised(H)
  ELSE IF HasTransportNodes(H) THEN Got(H.TransmissionType, open(H))
  ELSE Raised(open(H))

\* BaslerCamera.destination_ip_address (getter)
get_destination_ip_address(H) ==
  IF is_emulated(H) THEN Got(None, H)
  ELSE IF ~Bool(H) THEN Raised(H)
  ELSE IF HasTransportNodes(H) THEN Got(H.DestinationAddr, open(H))
  ELSE Raised(open(H))

\* BaslerCamera.destination_port (getter)
get_destination_port(H) ==
  IF is_emulated(H) THEN Got(None, H)
  ELSE IF ~Bool(H) THEN Raised(H)
  ELSE IF HasTransportNodes(H) THEN Got(H.DestinationPort, open(H))
  ELSE Raised(open(H))

\* BaslerCamera.acquisition_mode (getter)
get_acquisition_mode(H) ==
  IF ~Bool(H) THEN Raised(H) ELSE Got(H.AcquisitionMode, open(H))

\* BaslerCamera.pixel_format (getter)
get_pixel_format(H) ==
  IF ~Bool(H) THEN Raised(H) ELSE Got(H.PixelFormat, open(H))

\* getattr(CAMERA, ky) for the fields get_basler_camera compares
GetAttr(H, ky) ==
  CASE ky = "acquisition_mode" -> get_acquisition_mode(H)
    [] ky = "serial_number" -> Got(H.serial_number, H)
    [] ky = "pixel_format" -> get_pixel_format(H)
    [] ky = "timeout_ms" -> Got(H.timeout_ms, H)
    [] ky = "convert_to_format" -> Got(H.convert_to_format, H)
    [] ky = "transmission_type" -> get_transmission_type(H)
    [] ky = "destination_ip_address" -> get_destination_ip_address(H)
    [] ky = "destination_port" -> get_destination_port(H)

\* Result of a method that may raise: the handle afterwards and whether it returned
Ok(H) == [ok |-> TRUE, H |-> H]
Err(H) == [ok |-> FALSE, H |-> H]

\* BaslerCamera.pixel_format (setter)
set_pixel_format(H, value) ==
  IF value # H.PixelFormat /\ value # "Undefined" THEN Ok([H EXCEPT !.PixelFormat = value]) ELSE Ok(H)

\* BaslerCamera.transmission_type (setter): TypeError unless a string
set_transmission_type(H, value) ==
  IF value = None THEN Err(H)
  ELSE IF value # H.TransmissionType THEN Ok([H EXCEPT !.TransmissionType = value]) ELSE Ok(H)

\* mutant: a destination address without Multicast is left unset, silently
set_destination_ip_address_Ignores(H, value) ==
  IF value = None THEN Ok(H)
  ELSE IF H.TransmissionType = "Multicast"
       THEN (IF value # H.DestinationAddr THEN Ok([H EXCEPT !.DestinationAddr = value]) ELSE Ok(H))
       ELSE Ok(H)

\* BaslerCamera.destination_ip_address (setter): writable only under Multicast
set_destination_ip_address(H, value) ==
  IF value = None THEN Ok(H)
  ELSE IF H.TransmissionType = "Multicast"
       THEN (IF value # H.DestinationAddr THEN Ok([H EXCEPT !.DestinationAddr = value]) ELSE Ok(H))
       ELSE Err(H)

\* BaslerCamera.destination_port (setter)
set_destination_port(H, value) ==
  IF value # None /\ value # H.DestinationPort THEN Ok([H EXCEPT !.DestinationPort = value]) ELSE Ok(H)

\* BaslerCamera.acquisition_mode (setter)
set_acquisition_mode(H, value) ==
  IF value # H.AcquisitionMode THEN Ok([H EXCEPT !.AcquisitionMode = value]) ELSE Ok(H)

\* BaslerCamera.exposure_time (setter)
set_exposure_time(H, value) ==
  IF value = 0 THEN Ok(H)
  ELSE IF value < 0 THEN Err(H)
  ELSE IF value # H.ExposureTimeAbs THEN Ok([H EXCEPT !.ExposureTimeAbs = value]) ELSE Ok(H)

\* the GigE-specific part of connect: the first setter that raises ends it
ConnectGigE(H) ==
  LET r1 == set_transmission_type(H, H._transmission_type)
      r2 == set_destination_ip_address(r1.H, H._destination_ip_address)
      r3 == set_destination_port(r2.H, H._destination_port)
  IN  IF ~r1.ok THEN r1 ELSE IF ~r2.ok THEN r2 ELSE r3

\* BaslerCamera.connect
connect(H) ==
  LET H1 == IF ~Bool(H) THEN create_camera(H) ELSE H
      H2 == open(H1)
      r3 == set_pixel_format(H2, H2._pixel_format)
      r4 == IF is_gige(r3.H) THEN ConnectGigE(r3.H) ELSE Ok(r3.H)
      r5 == set_acquisition_mode(r4.H, H._acquisition_mode)
      r6 == set_exposure_time(r5.H, H._exposure_time_microseconds)
  IN  IF is_emulated(H2) THEN r3
      ELSE IF ~r4.ok THEN r4
      ELSE r6

\* BaslerCamera.reconnect
reconnect(H) == connect(disconnect(H))

(* ======================================================================= *)
(* CameraThread (BaslerCameraThread.py): the acquisition worker            *)
(* ======================================================================= *)
\* a thread id that has not been constructed
NoThread == [camera |-> NoCam, counter |-> 0, exit_event |-> FALSE, latest_image |-> NoRec,
             lock |-> "free", pc |-> "none", retries |-> 0, wait |-> 0]

\* threading.Thread.is_alive: run() has been started and has not ended
is_alive(T) == T.pc \notin {"none", "exited", "crashed", "gone"}

\* the pylon camera the thread works on
Dev(t) == thr[t].camera[2]

\* CameraThread.run, line 74: StartGrabbing opens the camera when needed and
\* raises when the camera is grabbing already
RunStartGrabbing(t) ==
  /\ thr[t].pc = "start"
  /\ IF hnd[Dev(t)].IsGrabbing
     THEN /\ thr' = [thr EXCEPT ![t].pc = "crashed"]
          /\ UNCHANGED hnd
     ELSE /\ thr' = [thr EXCEPT ![t].pc = "loop"]
          /\ hnd' = [hnd EXCEPT ![Dev(t)].IsOpen = TRUE, ![Dev(t)].IsGrabbing = TRUE]
  /\ UNCHANGED <<CAMERA, CAMERA_THREAD, nHandles, nThreads, cl, hist>>

\* mutant: the tick calls _retrieve_result whether the camera grabs or not
RunTick_AlwaysRetrieves(t) ==
  /\ thr[t].pc = "loop"
  /\ IF thr[t].exit_event
     THEN thr' = [thr EXCEPT ![t].pc = "exited"]
     ELSE /\ thr[t].counter < MaxTicks
          /\ thr' = [thr EXCEPT ![t].counter = @ + 1,
                                ![t].retries = 0,
                                ![t].pc = "retrieve"]
  /\ UNCHANGED <<CAMERA, CAMERA_THREAD, nHandles, nThreads, hnd, cl, hist>>

\* CameraThread.run, lines 77-79: the loop test, the counter and IsGrabbing
RunTick(t) ==
  /\ thr[t].pc = "loop"
  /\ IF thr[t].exit_event
     THEN thr' = [thr EXCEPT ![t].pc = "exited"]
     ELSE /\ thr[t].counter < MaxTicks
          /\ thr' = [thr EXCEPT ![t].counter = @ + 1,
                                ![t].retries = 0,
                                ![t].pc = IF hnd[Dev(t)].IsGrabbing THEN "retrieve" ELSE "sleep"]
  /\ UNCHANGED <<CAMERA, CAMERA_THREAD, nHandles, nThreads, hnd, cl, hist>>

\* what one RetrieveResult call can give: a frame, a failed grab result or a
\* timeout while the camera grabs; an empty result or an exception otherwise
RetrieveOutcomes(H) ==
  IF H.IsOpen /\ H.IsGrabbing THEN {"frame", "failed", "timeout"} ELSE {"failed", "exception"}

\* mutant: the backoff doubles with every timeout
wait_time_Doubles(retries) == backoff_factor * (2 ^ (retries - 1))

\* line 104: the backoff after the retries-th timeout, in hundredths of a
\* second (wait_time = 0.01 * self.backoff_factor * retries)
wait_time(retries) == backoff_factor * retries

\* CameraThread._retrieve_result, lines 95-106: one attempt.  wait is the
\* sleep the worker is in, 0 when it is in none
RetrieveAttempt(t) ==
  /\ thr[t].pc = "retrieve"
  /\ \E res \in RetrieveOutcomes(hnd[Dev(t)]) :
       thr' = [thr EXCEPT ![t].pc = CASE res = "frame" -> "publish"
                                      [] res = "failed" -> "sleep"
                                      [] res = "timeout" -> "backoff"
                                      [] res = "exception" -> "crashed",
                          ![t].retries = IF res = "timeout" THEN @ + 1 ELSE @,
                          ![t].wait = IF res = "timeout" THEN wait_time(thr[t].retries + 1) ELSE 0]
  /\ UNCHANGED <<CAMERA, CAMERA_THREAD, nHandles, nThreads, hnd, cl, hist>>

\* mutant: the retry loop gives up one attempt early
AfterBackoff_OneShort(retries) == IF retries + 1 < max_retries THEN "retrieve" ELSE "crashed"

\* mutant: after the last timeout the worker goes on with its loop
AfterBackoff_KeepsLooping(retries) == IF retries < max_retries THEN "retrieve" ELSE "sleep"

\* where _retrieve_result goes after the backoff sleep: the while test of
\* line 95, and the raise of line 111 in its else branch
AfterBackoff(retries) == IF retries < max_retries THEN "retrieve" ELSE "crashed"

\* CameraThread._retrieve_result, lines 106-111: the backoff sleep has ended
RetrieveBackoff(t) ==
  /\ thr[t].pc = "backoff"
  /\ thr' = [thr EXCEPT ![t].pc = AfterBackoff(thr[t].retries), ![t].wait = 0]
  /\ UNCHANGED <<CAMERA, CAMERA_THREAD, nHandles, nThreads, hnd, cl, hist>>

\* CameraThread.run, line 85: enter `with self.lock`
PublishAcquire(t) ==
  /\ thr[t].pc = "publish"
  /\ thr[t].lock = "free"
  /\ thr' = [thr EXCEPT ![t].lock = "worker", ![t].pc = "locked"]
  /\ UNCHANGED <<CAMERA, CAMERA_THREAD, nHandles, nThreads, hnd, cl, hist>>

\* mutant: the counter of the record counts the publishes, not the ticks
NewRecord_PerPublish(T) ==
  [image |-> T.counter, timestamp |-> T.counter, counter |-> T.latest_image.counter + 1]

\* mutant: the counter of the record wraps around after two ticks
NewRecord_Wraps(T) ==
  [image |-> T.counter, timestamp |-> T.counter, counter |-> 2 - (T.counter % 2)]

\* the record run() stores: the image and the timestamp of this publish, each
\* named by the tick that produced it, and the counter
NewRecord(T) == [image |-> T.counter, timestamp |-> T.counter, counter |-> T.counter]

\* CameraThread.run, lines 86-88: store the record and leave the lock
PublishStore(t) ==
  /\ thr[t].pc = "locked"
  /\ thr' = [thr EXCEPT ![t].latest_image = NewRecord(thr[t]),
                        ![t].lock = "free", ![t].pc = "sleep"]
  /\ UNCHANGED <<CAMERA, CAMERA_THREAD, nHandles, nThreads, hnd, cl, hist>>

\* CameraThread.run, line 90: sleep(dt_sleep) ends
RunSleep(t) ==
  /\ thr[t].pc = "sleep"
  /\ thr' = [thr EXCEPT ![t].pc = "loop"]
  /\ UNCHANGED <<CAMERA, CAMERA_THREAD, nHandles, nThreads, hnd, cl, hist>>

\* mutant: stop does nothing once the worker has ended
stop_OnlyWhenAlive(T, H) ==
  IF is_alive(T) THEN [T |-> [T EXCEPT !.exit_event = TRUE],
                       H |-> [H EXCEPT !.IsGrabbing = FALSE, !.IsOpen = FALSE]]
  ELSE [T |-> T, H |-> H]

\* mutant: stop closes the camera and leaves the exit flag clear
stop_KeepsFlag(T, H) == [T |-> T,
                         H |-> [H EXCEPT !.IsGrabbing = FALSE, !.IsOpen = FALSE]]

\* CameraThread.stop on a pylon camera: set the flag, StopGrabbing, Close
stop(T, H) == [T |-> [T EXCEPT !.exit_event = TRUE],
               H |-> [H EXCEPT !.IsGrabbing = FALSE, !.IsOpen = FALSE]]

(* ======================================================================= *)
(* main.py: get_basler_camera                                              *)
(* ======================================================================= *)
\* line 143: some compared field differs from, or cannot be read from, CAMERA.
\* The getters run on the handle that the first getter has opened.
ParamsDiffer(H, p) ==
  \E ky \in CompareFields :
     LET g == GetAttr(open(H), ky) IN ~g.ok \/ g.val # p[ky]

\* lines 135-152: does get_basler_camera build a new handle?
flag_create_camera(cam, H, p) ==
  IF cam = 0 THEN TRUE
  ELSE IF ~Bool(H) THEN TRUE
  ELSE ParamsDiffer(H, p)

\* the identity fields of a request: serial number,
\* transport parameters, pixel encoding, acquisition mode
IdentityOf(p) == <<p.serial_number, p.transmission_type, p.destination_ip_address,
                   p.destination_port, p.pixel_format, p.acquisition_mode>>

\* the identity fields the handle H was constructed with
IdentityOfHandle(H) == <<H.serial_number, H._transmission_type, H._destination_ip_address,
                         H._destination_port, H._pixel_format, H._acquisition_mode>>

\* hist: what the last get_basler_camera call did
\*   called        a call has been made
\*   ok            it returned a handle (it did not raise)
\*   ret           the handle that was CAMERA when it ended
\*   created       it constructed a new handle
\*   disconnected  it disconnected the handle that was CAMERA before
\*   live          when it began, CAMERA was the open handle the call before returned
\*   sameIdentity  the request had the identity fields CAMERA was constructed with
\*   sameSerial    the request had the serial number of CAMERA
\*   aliveAtCreate a worker was alive on the old handle's camera when the new
\*                 handle was constructed
\*   openAtCreate  the old handle's camera was open when the new handle was
\*                 constructed
\*   closedAtCall  when it began, CAMERA was a handle that was not open
\*   sameSettings  the request had the timeout_ms and the convert_to_format of
\*                 the handle CAMERA
\*   exposure      the exposure time the request asked for
\*   params        the request
NoCall == [called |-> FALSE, ok |-> FALSE, ret |-> 0, created |-> FALSE, disconnected |-> FALSE,
           live |-> FALSE, sameIdentity |-> FALSE, sameSerial |-> FALSE, aliveAtCreate |-> FALSE,
           openAtCreate |-> FALSE, closedAtCall |-> FALSE, sameSettings |-> FALSE,
           exposure |-> 0, params |-> ReqEmu]

\* a worker is alive on the pylon camera of handle h
WorkerAliveOn(h) == \E t \in Threads : is_alive(thr[t]) /\ thr[t].camera = Pylon(h)

\* Rebinding CAMERA (line 161) drops the reference to the old BaslerCamera:
\* its stored arguments are gone, its pylon camera remains for the worker
\* that may hold it.
Dropped(H) == [NoHandle EXCEPT !._camera = H._camera, !.IsOpen = H.IsOpen,
                               !.IsGrabbing = H.IsGrabbing, !.ExposureTimeAbs = H.ExposureTimeAbs]

\* mutant: the comparison of line 143 reads the handle without opening it
GetBaslerCamera_ComparesClosed(p) ==
  LET old == CAMERA
      Hold == IF old = 0 THEN NoHandle ELSE hnd[old]
      create == flag_create_camera(old, Hold, p)
      new == nHandles + 1
      r == connect(create_camera(NewHandle(p)))
  IN  IF create
      THEN [CAMERA |-> new, nHandles |-> new, ok |-> r.ok, created |-> TRUE,
            disconnected |-> old # 0,
            hnd |-> IF old = 0 THEN [hnd EXCEPT ![new] = r.H]
                    ELSE [hnd EXCEPT ![old] = Dropped(disconnect(Hold)), ![new] = r.H]]
      ELSE [CAMERA |-> old, nHandles |-> nHandles, ok |-> TRUE, created |-> FALSE,
            disconnected |-> FALSE, hnd |-> hnd]

\* get_basler_camera(p), lines 128-175, as the new values of the state it
\* touches; ok = FALSE when connect raised
GetBaslerCamera(p) ==
  LET old == CAMERA
      Hold == IF old = 0 THEN NoHandle ELSE hnd[old]
      create == flag_create_camera(old, Hold, p)
      new == nHandles + 1
      r == connect(create_camera(NewHandle(p)))
      \* the comparison of line 143 has opened the old handle
      Hcmp == IF old # 0 /\ Bool(Hold) THEN open(Hold) ELSE Hold
  IN  IF create
      THEN [CAMERA |-> new, nHandles |-> new, ok |-> r.ok, created |-> TRUE,
            disconnected |-> old # 0,
            hnd |-> IF old = 0 THEN [hnd EXCEPT ![new] = r.H]
                    ELSE [hnd EXCEPT ![old] = Dropped(disconnect(Hcmp)), ![new] = r.H]]
      ELSE [CAMERA |-> old, nHandles |-> nHandles, ok |-> TRUE, created |-> FALSE,
            disconnected |-> FALSE,
            hnd |-> [hnd EXCEPT ![old] = Hcmp]]

\* the record kept of a get_basler_camera(p) call with outcome g
CallRecord(p, g) ==
  LET had == CAMERA # 0
      H == IF had THEN hnd[CAMERA] ELSE NoHandle
  IN  [called |-> TRUE, ok |-> g.ok, ret |-> g.CAMERA, created |-> g.created,
       disconnected |-> g.disconnected,
       live |-> had /\ hist.called /\ hist.ok /\ hist.ret = CAMERA /\ is_open(H),
       sameIdentity |-> had /\ IdentityOf(p) = IdentityOfHandle(H),
       sameSerial |-> had /\ p.serial_number = H.serial_number,
       aliveAtCreate |-> g.created /\ had /\ WorkerAliveOn(CAMERA),
       openAtCreate |-> g.created /\ had /\ g.hnd[CAMERA].IsOpen,
       closedAtCall |-> had /\ ~is_open(H),
       sameSettings |-> /\ had /\ p.timeout_ms = H.timeout_ms
                        /\ p.convert_to_format = H.convert_to_format,
       exposure |-> p.exposure_time_microseconds,
       params |-> p]

(* ======================================================================= *)
(* Clients: the calls request handlers make                                *)
(* ======================================================================= *)
\* cl[c]: pc     where the client is in its current call ("idle" between calls)
\*        op     the call it made last
\*        t      the CameraThread instance the call works on
\*        cam    the camera reference the call holds
\*        counter, i, n_max   locals of CameraThread.get_image
\*        img, ts, cnt        what the call read of image, timestamp and counter
\*        seenT, seen         the last sequence number get_image_info returned, and its thread
\*        first, pubs         the slot when the waiter first read it, and whether
\*                            a later record was in the slot at its last poll
\*        prev   the record the client's previous get_image on this loop
\*               returned (0: none), when the call follows it directly
\*        exp    the exposure time of the request, for take_photo
\*        grabs  the number of GrabOne calls the request has made
\*        grab   what its GrabOne gave ("none": no GrabOne yet)
\*        req, flag      params and flag_create_camera of get_basler_camera
\*        made   the handle this call of get_basler_camera constructed (0: none)
\*        fatal  the request found that the loop of CAMERA_THREAD had ended by
\*               retry exhaustion
\*        res    "none", "record", "empty" (no frame: image_array is None after the
\*               wait), "failed" (an acquisition failure that take_picture caught:
\*               image_array is None) or "error" (an exception left the call)
\* A call ends in pc = "done", where its result can be inspected, and the
\* client then returns to "idle".
IdleClient == [pc |-> "idle", op |-> "none", t |-> 0, cam |-> NoCam,
               counter |-> -1, i |-> 0, n_max |-> 0,
               img |-> 0, ts |-> 0, cnt |-> 0,
               seenT |-> 0, seen |-> 0, first |-> 0, pubs |-> FALSE, prev |-> 0,
               exp |-> 0, grabs |-> 0, grab |-> "none",
               req |-> ReqEmu, flag |-> FALSE, made |-> 0, fatal |-> FALSE, res |-> "none"]

\* a client starting the call op: the locals of the previous call are dropped
Begin(C, op, pc) == [IdleClient EXCEPT !.pc = pc, !.op = op, !.seenT = C.seenT, !.seen = C.seen]

\* a client ending its call with result res
End(C, res) == [C EXCEPT !.pc = "done", !.res = res]

\* some handler other than c holds a reference to the BaslerCamera h
HeldByOther(c, h) == \E d \in Clients \ {c} : cl[d].cam = Wrapper(h)

\* BaslerCamera.__del__: the last reference to the instance has gone, the
\* instance closes its camera
Released(c, h) ==
  IF h # 0 /\ h # CAMERA /\ ~HeldByOther(c, h)
  THEN [hnd EXCEPT ![h] = close(@)] ELSE hnd

\* the handler returns and the client is between calls again; the handler's
\* reference `cam` is released
Return(c) ==
  /\ cl[c].pc = "done"
  /\ cl' = [cl EXCEPT ![c] = Begin(cl[c], "none", "idle")]
  /\ hnd' = IF cl[c].cam[1] = "BaslerCamera" THEN Released(c, cl[c].cam[2]) ELSE hnd
  /\ UNCHANGED <<CAMERA, CAMERA_THREAD, nHandles, nThreads, thr, hist>>

\* the client has read sequence number k from the slot of thread t
Seen(C, t, k) == [C EXCEPT !.seenT = t, !.seen = k]

ThreadVarsUnchanged == UNCHANGED <<CAMERA, CAMERA_THREAD, nHandles, nThreads, hnd, thr, hist>>

(* ---------------- CameraThread.get_image: the frame-change waiter ------- *)
\* mutant: the attempt budget without its slack
n_max_NoSlack(dt_sleep, exposure) ==
  LET dt_min == Max2(Min2(dt_sleep, exposure), t_wait_min)
      dt_max == Max2(dt_sleep, exposure)
  IN  dt_max \div dt_min

\* lines 139-143: the attempt budget
n_max(dt_sleep, exposure) ==
  LET dt_min == Max2(Min2(dt_sleep, exposure), t_wait_min)
      dt_max == Max2(dt_sleep, exposure)
  IN  (dt_max \div dt_min) + n_slack

\* lines 136-146: ExposureTimeAbs is read from the camera, which must be open
GetImageBegin(c) ==
  /\ cl[c].pc \in {"idle", "get_image"}
  /\ CAMERA_THREAD # 0
  /\ LET t == CAMERA_THREAD
         H == hnd[Dev(t)]
         C == IF cl[c].pc = "idle" THEN Begin(cl[c], "get_image", "idle") ELSE cl[c]
     IN  cl' = [cl EXCEPT ![c] =
                  IF H.IsOpen
                  THEN [C EXCEPT !.pc = "gi_base", !.t = t, !.counter = -1, !.i = 0,
                                 !.n_max = n_max(T_SLEEP, H.ExposureTimeAbs)]
                  ELSE End([C EXCEPT !.t = t], "error")]
  /\ ThreadVarsUnchanged

\* mutant: the baseline is never taken
Baseline_NeverTaken(counter, rec) == counter

\* lines 148-149: take the baseline when none has been taken yet
Baseline(counter, rec) == IF counter < 0 /\ ~IsNone(rec) THEN rec.counter ELSE counter

GetImageBase(c) ==
  /\ cl[c].pc = "gi_base"
  /\ LET t == cl[c].t
         rec == thr[t].latest_image
         C1 == [cl[c] EXCEPT !.counter = Baseline(cl[c].counter, rec), !.pc = "gi_poll",
                             !.first = IF cl[c].i = 0 THEN rec.image ELSE @]
     IN  cl' = [cl EXCEPT ![c] = C1]
  /\ ThreadVarsUnchanged

\* mutant: any record in the slot counts as new
IsNew_AnyRecord(counter, rec) == ~IsNone(rec)

\* line 155: is the record in the slot a new one?
IsNew(counter, rec) == ~IsNone(rec) /\ counter # rec.counter

\* lines 151-155: after the sleep, poll the slot
GetImagePoll(c) ==
  /\ cl[c].pc = "gi_poll"
  /\ LET t == cl[c].t
         rec == thr[t].latest_image
         C1 == [cl[c] EXCEPT !.pubs = rec.image # cl[c].first]
         C2 == IF IsNone(rec) THEN C1 ELSE [C1 EXCEPT !.cnt = rec.counter]
     IN  cl' = [cl EXCEPT ![c] =
                  IF IsNew(cl[c].counter, rec) THEN [C2 EXCEPT !.pc = "gi_img"]
                  ELSE IF cl[c].i + 1 < cl[c].n_max
                       THEN [C2 EXCEPT !.i = @ + 1, !.pc = "gi_base"]
                       ELSE End([C2 EXCEPT !.i = @ + 1], "empty")]
  /\ ThreadVarsUnchanged

\* line 157, first read: self.latest_image["image"]
GetImageReadImage(c) ==
  /\ cl[c].pc = "gi_img"
  /\ LET rec == thr[cl[c].t].latest_image
     IN  cl' = [cl EXCEPT ![c].img = rec.image, ![c].pc = "gi_ts"]
  /\ ThreadVarsUnchanged

\* line 157, second read: self.latest_image["timestamp"]
GetImageReadTimestamp(c) ==
  /\ cl[c].pc = "gi_ts"
  /\ LET rec == thr[cl[c].t].latest_image
     IN  cl' = [cl EXCEPT ![c] = End([cl[c] EXCEPT !.ts = rec.timestamp], "record")]
  /\ ThreadVarsUnchanged

\* The handler whose get_image returned a record returns, and the same client
\* calls get_image on the same loop again (lines 136-146 as in GetImageBegin);
\* the client keeps the higher of the two numbers of the record it was given.
GetImageRepeat(c) ==
  /\ cl[c].pc = "done" /\ cl[c].n_max > 0 /\ cl[c].res = "record"
  /\ CAMERA_THREAD # 0 /\ cl[c].t = CAMERA_THREAD
  /\ LET t == CAMERA_THREAD
         H == hnd[Dev(t)]
         C == [Begin(cl[c], "get_image", "idle") EXCEPT !.prev = Max2(cl[c].img, cl[c].ts)]
     IN  cl' = [cl EXCEPT ![c] =
                  IF H.IsOpen
                  THEN [C EXCEPT !.pc = "gi_base", !.t = t, !.counter = -1, !.i = 0,
                                 !.n_max = n_max(T_SLEEP, H.ExposureTimeAbs)]
                  ELSE End([C EXCEPT !.t = t], "error")]
  /\ hnd' = IF cl[c].cam[1] = "BaslerCamera" THEN Released(c, cl[c].cam[2]) ELSE hnd
  /\ UNCHANGED <<CAMERA, CAMERA_THREAD, nHandles, nThreads, thr, hist>>

(* ---------------- CameraThread.get_latest_image ------------------------- *)
\* line 126: enter `with self.lock`
GetLatestImageAcquire(c) ==
  /\ cl[c].pc = "idle"
  /\ CAMERA_THREAD # 0
  /\ thr[CAMERA_THREAD].lock = "free"
  /\ cl' = [cl EXCEPT ![c] = [Begin(cl[c], "get_latest_image", "gl_read") EXCEPT !.t = CAMERA_THREAD]]
  /\ thr' = [thr EXCEPT ![CAMERA_THREAD].lock = c]
  /\ UNCHANGED <<CAMERA, CAMERA_THREAD, nHandles, nThreads, hnd, hist>>

\* mutant: the read takes the record out of the slot
GetLatestImageRead_Consumes(c) ==
  /\ cl[c].pc = "gl_read"
  /\ LET t == cl[c].t
         rec == thr[t].latest_image
     IN  /\ cl' = [cl EXCEPT ![c] = End([cl[c] EXCEPT !.img = rec.image, !.ts = rec.timestamp],
                                        IF IsNone(rec) THEN "empty" ELSE "record")]
         /\ thr' = [thr EXCEPT ![t].lock = "free", ![t].latest_image = NoRec]
  /\ UNCHANGED <<CAMERA, CAMERA_THREAD, nHandles, nThreads, hnd, hist>>

\* lines 127-132: read image and timestamp, leave the lock
GetLatestImageRead(c) ==
  /\ cl[c].pc = "gl_read"
  /\ LET t == cl[c].t
         rec == thr[t].latest_image
     IN  /\ cl' = [cl EXCEPT ![c] = End([cl[c] EXCEPT !.img = rec.image, !.ts = rec.timestamp],
                                        IF IsNone(rec) THEN "empty" ELSE "record")]
         /\ thr' = [thr EXCEPT ![t].lock = "free"]
  /\ UNCHANGED <<CAMERA, CAMERA_THREAD, nHandles, nThreads, hnd, hist>>

(* ---------------- CameraThread.get_image_info --------------------------- *)
\* line 120: the isinstance test, then line 117: latest_image['image'].shape
GetImageInfoImage(c) ==
  /\ cl[c].pc = "idle"
  /\ CAMERA_THREAD # 0
  /\ LET t == CAMERA_THREAD
         rec == thr[t].latest_image
         C == [Begin(cl[c], "get_image_info", "ii_ts") EXCEPT !.t = t]
     IN  cl' = [cl EXCEPT ![c] =
                  IF IsNone(rec) THEN End(C, "empty")
                  ELSE [C EXCEPT !.img = rec.image]]
  /\ ThreadVarsUnchanged

\* line 118: latest_image['timestamp']
GetImageInfoTimestamp(c) ==
  /\ cl[c].pc = "ii_ts"
  /\ cl' = [cl EXCEPT ![c].ts = thr[cl[c].t].latest_image.timestamp, ![c].pc = "ii_cnt"]
  /\ ThreadVarsUnchanged

\* line 119: latest_image['counter']
GetImageInfoCounter(c) ==
  /\ cl[c].pc = "ii_cnt"
  /\ LET t == cl[c].t
         k == thr[t].latest_image.counter
     IN  cl' = [cl EXCEPT ![c] = End(Seen([cl[c] EXCEPT !.cnt = k], t, k), "record")]
  /\ ThreadVarsUnchanged

(* ---------------- main.py: stop_camera_thread --------------------------- *)
\* line 107: CAMERA_THREAD.stop()
StopCameraThreadStop(c) ==
  /\ cl[c].pc \in {"idle", "cb_stop"}
  /\ CAMERA_THREAD # 0
  /\ LET t == CAMERA_THREAD
         r == stop(thr[t], hnd[Dev(t)])
         C == IF cl[c].pc = "idle" THEN Begin(cl[c], "stop_camera_thread", "join")
              ELSE [cl[c] EXCEPT !.pc = "cb_join"]
     IN  /\ thr' = [thr EXCEPT ![t] = r.T]
         /\ hnd' = [hnd EXCEPT ![Dev(t)] = r.H]
         /\ cl' = [cl EXCEPT ![c] = [C EXCEPT !.t = t]]
  /\ UNCHANGED <<CAMERA, CAMERA_THREAD, nHandles, nThreads, hist>>

\* line 108: CAMERA_THREAD.join() returns once the worker has ended
StopCameraThreadJoin(c) ==
  /\ cl[c].pc \in {"join", "cb_join"}
  /\ ~is_alive(thr[CAMERA_THREAD])
  /\ cl' = [cl EXCEPT ![c] = IF cl[c].pc = "join" THEN End(cl[c], "none")
                             ELSE [cl[c] EXCEPT !.pc = "cb_start"]]
  /\ ThreadVarsUnchanged

(* ---------------- main.py: the continuous branch of take_picture -------- *)
\* the worker ended by the raise of _retrieve_result, line 111
FatallyExited(T) == T.pc = "crashed" /\ T.retries = max_retries

\* lines 286-293: is a new worker needed, and must the old one be stopped?
ContinuousDecide(c) ==
  /\ cl[c].pc = "cb_decide"
  /\ cl' = [cl EXCEPT ![c].pc =
              IF CAMERA_THREAD = 0 \/ ~is_alive(thr[CAMERA_THREAD]) THEN "cb_start"
              ELSE IF cl[c].cam # thr[CAMERA_THREAD].camera THEN "cb_stop"
              ELSE "get_image",
                       ![c].fatal = CAMERA_THREAD # 0 /\ FatallyExited(thr[CAMERA_THREAD])]
  /\ ThreadVarsUnchanged

\* mutant: the slot of a new thread holds a placeholder record
NewThread_Placeholder(cam) ==
  [NoThread EXCEPT !.camera = cam, !.pc = "start",
                   !.latest_image = [image |-> 1, timestamp |-> 1, counter |-> 1]]

\* CameraThread.__init__ on a pylon camera: counter 0, empty slot, flag clear
NewThread(cam) == [NoThread EXCEPT !.camera = cam, !.pc = "start"]

\* Rebinding CAMERA_THREAD (line 120) drops the last reference to the old
\* instance unless its worker still runs or another call still works on it.
Collect(c) ==
  [t \in Threads |->
     IF t = CAMERA_THREAD /\ ~is_alive(thr[t]) /\ (\A d \in Clients \ {c} : cl[d].t # t)
     THEN [NoThread EXCEPT !.pc = "gone"] ELSE thr[t]]

\* start_camera_thread, lines 114-125.  CameraThread.__init__ calls
\* camera.IsOpen(): a BaslerCamera has no such method, the constructor raises
\* and CAMERA_THREAD keeps its value.
StartCameraThread(c) ==
  /\ cl[c].pc = "cb_start"
  /\ IF IsPylon(cl[c].cam)
     THEN /\ nThreads < MaxThreads
          /\ nThreads' = nThreads + 1
          /\ CAMERA_THREAD' = nThreads + 1
          /\ thr' = [Collect(c) EXCEPT ![nThreads + 1] = NewThread(cl[c].cam)]
          /\ hnd' = [hnd EXCEPT ![cl[c].cam[2]].IsOpen = TRUE]
          /\ cl' = [cl EXCEPT ![c].pc = "get_image"]
     ELSE /\ cl' = [cl EXCEPT ![c] = End(cl[c], "error")]
          /\ UNCHANGED <<CAMERA_THREAD, nThreads, thr, hnd>>
  /\ UNCHANGED <<CAMERA, nHandles, hist>>

\* the continuous branch run on the pylon camera of the live handle, the
\* camera type CameraThread declares
ContinuousOnPylon(c) ==
  /\ cl[c].pc = "idle"
  /\ CAMERA # 0 /\ Bool(hnd[CAMERA])
  /\ cl' = [cl EXCEPT ![c] = [Begin(cl[c], "continuous", "cb_decide") EXCEPT !.cam = Pylon(CAMERA)]]
  /\ ThreadVarsUnchanged

(* ---------------- main.py: get_basler_camera, take_picture, close ------- *)
\* a call of get_basler_camera(p) on its own
GetBaslerCameraCall(c, p) ==
  /\ cl[c].pc = "idle"
  /\ LET g == GetBaslerCamera(p)
     IN  /\ g.created => nHandles < MaxHandles
         /\ CAMERA' = g.CAMERA
         /\ nHandles' = g.nHandles
         /\ hnd' = g.hnd
         /\ hist' = CallRecord(p, g)
         /\ cl' = [cl EXCEPT ![c] = End([Begin(cl[c], "get_basler_camera", "idle")
                                            EXCEPT !.cam = Wrapper(g.CAMERA)],
                                        IF g.ok THEN "none" ELSE "error")]
  /\ UNCHANGED <<CAMERA_THREAD, nThreads, thr>>

\* take_picture, lines 273-281: get the camera, then branch on the mode
TakePicture(c, p) ==
  /\ cl[c].pc = "idle"
  /\ LET g == GetBaslerCamera(p)
         C == [Begin(cl[c], "take_picture", "idle") EXCEPT !.cam = Wrapper(g.CAMERA)]
     IN  /\ g.created => nHandles < MaxHandles
         /\ CAMERA' = g.CAMERA
         /\ nHandles' = g.nHandles
         /\ hnd' = g.hnd
         /\ hist' = CallRecord(p, g)
         /\ cl' = [cl EXCEPT ![c] =
                     IF ~g.ok THEN End(C, "error")
                     ELSE IF p.acquisition_mode = "Continuous" THEN [C EXCEPT !.pc = "cb_decide"]
                     ELSE [C EXCEPT !.pc = "take_photo", !.exp = p.exposure_time_microseconds]]
  /\ UNCHANGED <<CAMERA_THREAD, nThreads, thr>>

\* what GrabOne can give
GrabOneOutcomes == {"frame", "failed", "timeout", "exception"}

\* mutant: the handle stops grabbing before the timeout is checked
BeforeGrab_StopsFirst(H, exposure) ==
  LET r1 == connect(H)
      r2 == set_exposure_time(r1.H, exposure)
  IN  IF ~r1.ok THEN r1
      ELSE IF ~r2.ok THEN r2
      ELSE IF r2.H.timeout_ms * 1000 < r2.H.ExposureTimeAbs
           THEN Err([r2.H EXCEPT !.IsGrabbing = FALSE])
      ELSE Ok([r2.H EXCEPT !.IsGrabbing = FALSE])

\* BaslerCamera.take_photo, lines 734-747, up to the grab: connect, set the
\* exposure time, check it against the timeout, stop grabbing
BeforeGrab(H, exposure) ==
  LET r1 == connect(H)
      r2 == set_exposure_time(r1.H, exposure)
  IN  IF ~r1.ok THEN r1
      ELSE IF ~r2.ok THEN r2
      ELSE IF r2.H.timeout_ms * 1000 < r2.H.ExposureTimeAbs THEN Err(r2.H)
      ELSE Ok([r2.H EXCEPT !.IsGrabbing = FALSE])

\* mutant: a GrabOne that timed out is repeated after the reconnect
AfterGrabOne_Retries(H, res) ==
  [H |-> CASE res = "frame" -> H
           [] res = "timeout" -> reconnect(H).H
           [] OTHER -> disconnect(H),
   res |-> IF res \in {"frame", "timeout"} THEN "record" ELSE "failed",
   grabs |-> IF res = "timeout" THEN 2 ELSE 1]

\* take_photo after GrabOne, lines 748-753, and the handlers of take_picture,
\* lines 310-316, for the outcome res of the one GrabOne call: the handle
\* afterwards, the result of the request and the number of GrabOne calls
AfterGrabOne(H, res) ==
  [H |-> CASE res = "frame" -> H
           [] res = "timeout" -> reconnect(H).H
           [] OTHER -> disconnect(H),
   res |-> IF res = "frame" THEN "record" ELSE "failed",
   grabs |-> 1]

\* take_picture, lines 307-322: the single-shot branch.  A timeout of the
\* grab reconnects the handle, any other exception disconnects it; both end
\* in "No image retrieved".
TakePhoto(c) ==
  /\ cl[c].pc = "take_photo"
  /\ LET h == cl[c].cam[2]
         r == BeforeGrab(hnd[h], cl[c].exp)
     IN  \E res \in GrabOneOutcomes :
           LET g == AfterGrabOne(r.H, res)
           IN  /\ hnd' = [hnd EXCEPT ![h] = IF ~r.ok THEN disconnect(r.H) ELSE g.H]
               /\ cl' = [cl EXCEPT ![c] =
                            IF ~r.ok THEN End(cl[c], "failed")
                            ELSE End([cl[c] EXCEPT !.grabs = g.grabs, !.grab = res], g.res)]
  /\ UNCHANGED <<CAMERA, CAMERA_THREAD, nHandles, nThreads, thr, hist>>

\* close_cameras, lines 424-438.  The test of line 433 asks whether CAMERA
\* is a CameraThread, which it never is: the worker is left alone.
CloseCameras(c) ==
  /\ cl[c].pc = "idle"
  /\ IF CAMERA # 0 /\ is_open(hnd[CAMERA])
     THEN /\ hnd' = [hnd EXCEPT ![CAMERA] = disconnect(@)]
          /\ CAMERA' = 0
     ELSE UNCHANGED <<hnd, CAMERA>>
  /\ cl' = [cl EXCEPT ![c] = End(Begin(cl[c], "close_cameras", "idle"), "none")]
  /\ UNCHANGED <<CAMERA_THREAD, nHandles, nThreads, thr, hist>>

\* take_picture, lines 318-322 and what follows: the response the caller gets
\* for a result; an exception that leaves the handler is a 500
HttpResponse(res) ==
  CASE res = "record" -> <<200, "image">>
    [] res \in {"empty", "failed"} -> <<400, "No image retrieved.">>
    [] res = "error" -> <<500, "Internal Server Error">>
    [] OTHER -> <<200, "true">>

(* ======================================================================= *)
(* The specification                                                       *)
(* ======================================================================= *)
Init ==
  /\ CAMERA = 0
  /\ CAMERA_THREAD = 0
  /\ nHandles = 0
  /\ nThreads = 0
  /\ hnd = [h \in Handles |-> NoHandle]
  /\ thr = [t \in Threads |-> NoThread]
  /\ cl = [c \in Clients |-> IdleClient]
  /\ hist = NoCall

Worker(t) ==
  \/ RunStartGrabbing(t)
  \/ RunTick(t)
  \/ RetrieveAttempt(t)
  \/ RetrieveBackoff(t)
  \/ PublishAcquire(t)
  \/ PublishStore(t)
  \/ RunSleep(t)

\* The handle's life through the functions of main.py, as take_picture calls
\* them: no worker ever starts, because CameraThread cannot be constructed
\* on a BaslerCamera.
HandleClient(c) ==
  \/ Return(c)
  \/ ContinuousDecide(c)
  \/ StartCameraThread(c)
  \/ \E p \in Requests : GetBaslerCameraCall(c, p)
  \/ \E p \in Requests : TakePicture(c, p)
  \/ TakePhoto(c)
  \/ CloseCameras(c)

Next == \E c \in Solo : HandleClient(c)

Spec == Init /\ [][Next]_vars

\* The same with a worker: the continuous branch may also be run on the pylon
\* camera of the live handle.  Two cameras are requested, one of them with
\* two exposure times.
WorkerRequests == {ReqGigE, ReqGigELong, ReqUsb}

WorkerClient(c) ==
  \/ Return(c)
  \/ GetImageBegin(c)
  \/ GetImageBase(c)
  \/ GetImagePoll(c)
  \/ GetImageReadImage(c)
  \/ GetImageReadTimestamp(c)
  \/ StopCameraThreadStop(c)
  \/ StopCameraThreadJoin(c)
  \/ ContinuousDecide(c)
  \/ StartCameraThread(c)
  \/ ContinuousOnPylon(c)
  \/ \E p \in WorkerRequests : GetBaslerCameraCall(c, p)
  \/ \E p \in WorkerRequests : TakePicture(c, p)
  \/ TakePhoto(c)
  \/ CloseCameras(c)

NextWorker ==
  \/ \E t \in Threads : Worker(t)
  \/ \E c \in Solo : WorkerClient(c)

SpecWorker == Init /\ [][NextWorker]_vars

(* ----------------------------------------------------------------------- *)
(* Two request handlers at a time.  get_basler_camera holds no lock, so    *)
(* its statements interleave with those of the other handler; every        *)
(* statement works on the global CAMERA as it is at that moment.           *)
(* ----------------------------------------------------------------------- *)
CoordRequests == {ReqGigE, ReqUsb}

\* take_picture or get_camera_info enters get_basler_camera(p)
GbEnter(c, p, op) ==
  /\ cl[c].pc = "idle"
  /\ cl' = [cl EXCEPT ![c] = [Begin(cl[c], op, "gb_check") EXCEPT !.req = p]]
  /\ ThreadVarsUnchanged

\* lines 135-152: decide whether a new handle is built; the getters of the
\* comparison open the handle they read
GbCheck(c) ==
  /\ cl[c].pc = "gb_check"
  /\ LET H == IF CAMERA = 0 THEN NoHandle ELSE hnd[CAMERA]
         create == flag_create_camera(CAMERA, H, cl[c].req)
     IN  /\ cl' = [cl EXCEPT ![c].flag = create,
                             ![c].pc = IF create THEN "gb_disc" ELSE "gb_ret"]
         /\ hnd' = IF CAMERA # 0 /\ Bool(H) THEN [hnd EXCEPT ![CAMERA] = open(H)] ELSE hnd
  /\ UNCHANGED <<CAMERA, CAMERA_THREAD, nHandles, nThreads, thr, hist>>

\* lines 156-157: CAMERA.disconnect() when CAMERA is a BaslerCamera
GbDisconnect(c) ==
  /\ cl[c].pc = "gb_disc"
  /\ hnd' = IF CAMERA # 0 THEN [hnd EXCEPT ![CAMERA] = disconnect(@)] ELSE hnd
  /\ cl' = [cl EXCEPT ![c].pc = "gb_new"]
  /\ UNCHANGED <<CAMERA, CAMERA_THREAD, nHandles, nThreads, thr, hist>>

\* line 161: CAMERA = BaslerCamera(**params); the instance CAMERA named
\* before loses that reference
GbConstruct(c) ==
  /\ cl[c].pc = "gb_new"
  /\ nHandles < MaxHandles
  /\ LET new == nHandles + 1
         old == CAMERA
     IN  /\ CAMERA' = new
         /\ nHandles' = new
         /\ hnd' = [h \in Handles |->
                      IF h = new THEN NewHandle(cl[c].req)
                      ELSE IF h = old /\ ~HeldByOther(c, h) THEN Dropped(close(hnd[h]))
                      ELSE hnd[h]]
         /\ cl' = [cl EXCEPT ![c].pc = "gb_create", ![c].made = new]
  /\ UNCHANGED <<CAMERA_THREAD, nThreads, thr, hist>>

\* line 166: CAMERA.create_camera() gives the instance a fresh pylon camera
GbCreate(c) ==
  /\ cl[c].pc = "gb_create"
  /\ IF CAMERA = 0
     THEN /\ cl' = [cl EXCEPT ![c] = End(cl[c], "error")]
          /\ UNCHANGED hnd
     ELSE /\ hnd' = [hnd EXCEPT ![CAMERA] = create_camera(close(@))]
          /\ cl' = [cl EXCEPT ![c].pc = "gb_connect"]
  /\ UNCHANGED <<CAMERA, CAMERA_THREAD, nHandles, nThreads, thr, hist>>

\* line 171: CAMERA.connect()
GbConnect(c) ==
  /\ cl[c].pc = "gb_connect"
  /\ IF CAMERA = 0
     THEN /\ cl' = [cl EXCEPT ![c] = End(cl[c], "error")]
          /\ UNCHANGED hnd
     ELSE LET r == connect(hnd[CAMERA])
          IN  /\ hnd' = [hnd EXCEPT ![CAMERA] = r.H]
              /\ cl' = [cl EXCEPT ![c] = IF r.ok THEN [cl[c] EXCEPT !.pc = "gb_ret"]
                                         ELSE End(cl[c], "error")]
  /\ UNCHANGED <<CAMERA, CAMERA_THREAD, nHandles, nThreads, thr, hist>>

\* line 175: return CAMERA, and what the caller does with it: take_picture
\* goes on to its branch (lines 280-316), get_camera_info reads the handle
GbReturn(c) ==
  /\ cl[c].pc = "gb_ret"
  /\ LET C == [cl[c] EXCEPT !.cam = Wrapper(CAMERA)]
         p == cl[c].req
     IN  cl' = [cl EXCEPT ![c] =
                  IF CAMERA = 0 THEN End(cl[c], "error")
                  ELSE IF cl[c].op # "take_picture" THEN End(C, "none")
                  ELSE IF p.acquisition_mode = "Continuous" THEN [C EXCEPT !.pc = "cb_decide"]
                  ELSE [C EXCEPT !.pc = "take_photo", !.exp = p.exposure_time_microseconds]]
  /\ ThreadVarsUnchanged

CoordClient(c) ==
  \/ Return(c)
  \/ \E p \in CoordRequests : GbEnter(c, p, "take_picture")
  \/ \E p \in CoordRequests : GbEnter(c, p, "get_camera_info")
  \/ GbCheck(c)
  \/ GbDisconnect(c)
  \/ GbConstruct(c)
  \/ GbCreate(c)
  \/ GbConnect(c)
  \/ GbReturn(c)
  \/ ContinuousDecide(c)
  \/ StartCameraThread(c)
  \/ TakePhoto(c)
  \/ CloseCameras(c)

NextCoord == \E c \in Clients : CoordClient(c)

SpecCoord == Init /\ [][NextCoord]_vars

(* ----------------------------------------------------------------------- *)
(* The acquisition worker and its readers on one connected camera: the     *)
(* state after the first get_basler_camera(ReqGigE) has returned, and the  *)
(* calls that work on CAMERA_THREAD.                                       *)
(* ----------------------------------------------------------------------- *)
InitThread ==
  /\ CAMERA = 1
  /\ CAMERA_THREAD = 0
  /\ nHandles = 1
  /\ nThreads = 0
  /\ hnd = [h \in Handles |-> IF h = 1 THEN connect(create_camera(NewHandle(ReqGigE))).H ELSE NoHandle]
  /\ thr = [t \in Threads |-> NoThread]
  /\ cl = [c \in Clients |-> IdleClient]
  /\ hist = [NoCall EXCEPT !.called = TRUE, !.ok = TRUE, !.ret = 1, !.created = TRUE,
                         !.exposure = ReqGigE.exposure_time_microseconds,
                         !.params = ReqGigE]

ThreadClient(c) ==
  \/ Return(c)
  \/ GetImageBegin(c)
  \/ GetImageBase(c)
  \/ GetImagePoll(c)
  \/ GetImageReadImage(c)
  \/ GetImageReadTimestamp(c)
  \/ GetLatestImageAcquire(c)
  \/ GetLatestImageRead(c)
  \/ GetImageInfoImage(c)
  \/ GetImageInfoTimestamp(c)
  \/ GetImageInfoCounter(c)
  \/ StopCameraThreadStop(c)
  \/ StopCameraThreadJoin(c)
  \/ ContinuousDecide(c)
  \/ StartCameraThread(c)
  \/ ContinuousOnPylon(c)

NextThread ==
  \/ \E t \in Threads : Worker(t)
  \/ \E c \in Solo : ThreadClient(c)

SpecThread == InitThread /\ [][NextThread]_vars

\* SpecThread with a client that remembers what its last get_image returned
\* when it calls get_image again
NextRepeat ==
  \/ NextThread
  \/ \E c \in Solo : GetImageRepeat(c)

SpecRepeat == InitThread /\ [][NextRepeat]_vars

\* the steps of CameraThread.get_image after its first: the handler's thread
\* runs and each sleep(dt_min) of line 151 returns
Waiter(c) ==
  \/ GetImageBase(c)
  \/ GetImagePoll(c)
  \/ GetImageReadImage(c)
  \/ GetImageReadTimestamp(c)

\* SpecThread with a worker thread that is scheduled, device calls that
\* return or time out, and a join that returns once the worker has ended
SpecStopFair ==
  SpecThread /\ (\A t \in Threads : WF_vars(Worker(t)))
             /\ (\A c \in Solo : WF_vars(StopCameraThreadJoin(c)))

\* SpecThread with a handler that is scheduled while it is inside get_image
SpecWaitFair == SpecThread /\ \A c \in Solo : WF_vars(Waiter(c))

(* ----------------------------------------------------------------------- *)
(* Two continuous-mode requests at a time, with a worker: the continuous   *)
(* branch of take_picture run on the pylon camera of the live handle,      *)
(* and close_cameras.  There is one camera, so the branch of line 288     *)
(* that stops the worker of another camera is never taken.                 *)
(* ----------------------------------------------------------------------- *)
PairClient(c) ==
  \/ Return(c)
  \/ ContinuousOnPylon(c)
  \/ ContinuousDecide(c)
  \/ StartCameraThread(c)
  \/ GetImageBegin(c)
  \/ GetImageBase(c)
  \/ GetImagePoll(c)
  \/ GetImageReadImage(c)
  \/ GetImageReadTimestamp(c)
  \/ CloseCameras(c)

\* the worker, its ticks capped for this specification
PairWorker(t) == Worker(t) /\ thr'[t].counter <= MaxPairTicks

NextPair ==
  \/ \E t \in Threads : PairWorker(t)
  \/ \E c \in Clients : PairClient(c)

SpecPair == InitThread /\ [][NextPair]_vars

(* ----------------------------------------------------------------------- *)
(* Single-frame requests on a handle whose pylon camera a worker streams   *)
(* from: take_picture with two requests that differ in timeout_ms only,    *)
(* and the continuous branch on the pylon camera of the live handle.       *)
(* ----------------------------------------------------------------------- *)
ShotRequests == {ReqGigEShort, ReqGigESingleLong}

ShotClient(c) ==
  \/ Return(c)
  \/ ContinuousOnPylon(c)
  \/ ContinuousDecide(c)
  \/ StartCameraThread(c)
  \/ GetImageBegin(c)
  \/ GetImageBase(c)
  \/ GetImagePoll(c)
  \/ GetImageReadImage(c)
  \/ GetImageReadTimestamp(c)
  \/ \E p \in ShotRequests : TakePicture(c, p)
  \/ TakePhoto(c)

NextShot ==
  \/ \E t \in Threads : Worker(t)
  \/ \E c \in Solo : ShotClient(c)

SpecShot == Init /\ [][NextShot]_vars

(* ======================================================================= *)
(* Properties                                                              *)
(* ----------------------------------------------------------------------- *)
(* The worker on a camera that close_cameras closes under it: the          *)
(* continuous branch on the pylon camera of the live handle, and           *)
(* close_cameras, which leaves the worker running.                         *)
(* ----------------------------------------------------------------------- *)
ClosingClient(c) ==
  \/ Return(c)
  \/ ContinuousOnPylon(c)
  \/ ContinuousDecide(c)
  \/ StartCameraThread(c)
  \/ GetImageBegin(c)
  \/ GetImageBase(c)
  \/ GetImagePoll(c)
  \/ GetImageReadImage(c)
  \/ GetImageReadTimestamp(c)
  \/ CloseCameras(c)

NextIdle ==
  \/ \E t \in Threads : Worker(t)
  \/ \E c \in Solo : ClosingClient(c)

SpecIdle == InitThread /\ [][NextIdle]_vars

(* ======================================================================= *)
\* the call of client c has ended
Done(c) == cl[c].pc = "done"

\* client c is in, or has ended, a frame-change wait (CameraThread.get_image)
Waited(c) == cl[c].n_max > 0

\* C1: every reader returns image, timestamp and sequence number of one and
\* the same published record.
C1_NoTornRead ==
  \A c \in Clients :
     (Done(c) /\ cl[c].res = "record")
        => /\ cl[c].img = cl[c].ts
           /\ cl[c].op = "get_image_info" => cl[c].cnt = cl[c].img

\* the worker t stores a record in this step
Publishes(t) == thr[t].pc = "locked" /\ thr'[t].pc # "locked"

\* C2 as claimed: the published sequence number starts at 0 and increases by
\* exactly one with each published frame.
C2_StepsByOne ==
  [][\A t \in Threads :
       Publishes(t) => thr'[t].latest_image.counter = thr[t].latest_image.counter + 1]_vars

\* C2 as amended: the published sequence number is the number of ticks the
\* loop has started; it is 0 (empty slot) before the first publish, strictly
\* increases with each publish, and a step that is not a publish leaves the
\* record of a running loop as it is.
C2_CountsTicks ==
  /\ [](\A t \in Threads : /\ thr[t].latest_image.counter <= thr[t].counter
                           /\ IsNone(thr[t].latest_image) <=> thr[t].latest_image.counter = 0)
  /\ [][\A t \in Threads :
          /\ Publishes(t) => /\ thr'[t].latest_image.counter = thr[t].counter
                             /\ thr'[t].latest_image.counter > thr[t].latest_image.counter
          /\ (~Publishes(t) /\ is_alive(thr[t]))
                => thr'[t].latest_image = thr[t].latest_image]_vars

\* C2 witness: a frame is being published after a tick that published nothing
C2_Witness ==
  \E t \in Threads : thr[t].pc = "locked" /\ thr[t].counter > thr[t].latest_image.counter + 1

\* C3 as claimed: the sequence number a reader is given never goes down,
\* also across a replacement of the acquisition loop.
C3_ReaderMonotone ==
  [][\A c \in Clients : cl'[c].seen >= cl[c].seen]_vars

\* C3 as amended: the sequence number a reader is given by one acquisition
\* loop instance never goes down.
C3_ReaderMonotonePerLoop ==
  [][\A c \in Clients : cl'[c].seenT = cl[c].seenT => cl'[c].seen >= cl[c].seen]_vars

\* C3 witness: a reader that was given a sequence number by this loop before
\* is about to be given a higher one
C3_Witness ==
  \E c \in Clients :
     /\ cl[c].pc = "ii_cnt" /\ cl[c].seenT = cl[c].t /\ cl[c].seen >= 1
     /\ thr[cl[c].t].latest_image.counter > cl[c].seen

\* C4: the waiter returns a record newer than its baseline when one was
\* published between its first and its last look at the slot, and the empty
\* result only when none was.
C4_WaiterComplete ==
  \A c \in Clients :
     (Done(c) /\ Waited(c))
        => /\ cl[c].res = "record" => (cl[c].img > cl[c].first /\ cl[c].ts > cl[c].first)
           /\ cl[c].res = "empty" => ~cl[c].pubs

\* C5 as claimed: a waiter that finds the record with sequence 1 in the slot
\* when it starts returns that record.
C5_ReturnsFirst ==
  \A c \in Clients :
     (Done(c) /\ Waited(c) /\ cl[c].res # "error" /\ cl[c].first = 1)
        => (cl[c].res = "record" /\ cl[c].img = 1)

\* C5 as amended: a waiter takes the record it finds in the slot when it
\* starts as seen; it returns a later record when one is published before its
\* last poll, and the empty result otherwise.
C5_ReturnsNewer ==
  \A c \in Clients :
     (Done(c) /\ Waited(c) /\ cl[c].res # "error" /\ cl[c].first >= 1)
        => /\ cl[c].res = "record" => (cl[c].img > cl[c].first /\ cl[c].ts > cl[c].first)
           /\ cl[c].res = "empty" <=> ~cl[c].pubs

\* C5 witness: the waiter found sequence 1 in the slot and returned sequence 2
C5_Witness ==
  \E c \in Clients :
     Done(c) /\ Waited(c) /\ cl[c].first = 1 /\ cl[c].res = "record" /\ cl[c].img = 2

\* C6: with max_retries = 3, after two timeouts in a tick the worker makes a
\* third attempt, and when that attempt succeeds its frame becomes the latest
\* record while the worker is still alive.
C6_ThirdAttemptPublished ==
  [][\A t \in Threads :
       /\ (thr[t].pc = "backoff" /\ thr[t].retries = 2) => thr'[t].pc \in {"backoff", "retrieve"}
       /\ (thr[t].retries = 2 /\ Publishes(t))
            => /\ thr'[t].latest_image.counter = thr[t].counter
               /\ is_alive(thr'[t])]_vars

\* C6 witness: the frame of the third attempt has been published
C6_Witness ==
  \E t \in Threads :
     thr[t].pc = "sleep" /\ thr[t].retries = 2 /\ thr[t].latest_image.counter = thr[t].counter

\* C7: when every attempt of a tick has timed out the worker ends: it is not
\* alive, it has published nothing in that tick, and it never makes another
\* attempt or publishes again.
C7_ExhaustionIsFatal ==
  /\ [](\A t \in Threads :
          (thr[t].pc = "crashed" /\ thr[t].retries = max_retries)
             => (~is_alive(thr[t]) /\ thr[t].latest_image.counter < thr[t].counter))
  /\ [][\A t \in Threads :
          /\ (thr[t].pc = "backoff" /\ thr[t].retries = max_retries)
                => thr'[t].pc \in {"backoff", "crashed"}
          /\ thr[t].pc = "crashed"
                => /\ thr'[t].pc \in {"crashed", "gone"}
                   /\ thr'[t].pc = "crashed" => thr'[t].latest_image = thr[t].latest_image]_vars

\* C7 witness: a worker has ended after max_retries timeouts in one tick
C7_Witness ==
  \E t \in Threads : thr[t].pc = "crashed" /\ thr[t].retries = max_retries

\* client c calls CameraThread.stop in this step
Stops(c) == cl[c].pc \in {"idle", "cb_stop"} /\ cl'[c].pc \in {"join", "cb_join"}

\* C8 as claimed: stop on a loop that has ended changes no state of the loop,
\* the slot or the camera.
C8_StopIsNoOp ==
  [][\A c \in Clients :
       (Stops(c) /\ ~is_alive(thr[CAMERA_THREAD])) => (thr' = thr /\ hnd' = hnd)]_vars

\* C8 as amended: stop on a loop that has ended raises no error and leaves
\* the worker's position, the counter and the slot as they are; it sets the
\* exit flag, stops grabbing and closes the camera, and when the flag is set
\* and the camera closed already (a second stop) it changes nothing.
C8_StopIsIdempotent ==
  [][\A c \in Clients :
       (Stops(c) /\ ~is_alive(thr[CAMERA_THREAD]))
          => LET t == CAMERA_THREAD
                 h == thr[t].camera[2]
             IN  /\ cl'[c].res # "error"
                 /\ thr' = [thr EXCEPT ![t].exit_event = TRUE]
                 /\ hnd' = [hnd EXCEPT ![h].IsGrabbing = FALSE, ![h].IsOpen = FALSE]
                 /\ (thr[t].exit_event /\ ~hnd[h].IsOpen /\ ~hnd[h].IsGrabbing)
                       => (thr' = thr /\ hnd' = hnd)]_vars

\* C8 witness: stop has been called on a worker that ended by retry
\* exhaustion, and has closed its camera
C8_Witness ==
  \E c \in Clients :
     /\ cl[c].pc = "join" /\ CAMERA_THREAD # 0
     /\ thr[CAMERA_THREAD].pc = "crashed" /\ thr[CAMERA_THREAD].retries = max_retries
     /\ thr[CAMERA_THREAD].exit_event /\ ~hnd[Dev(CAMERA_THREAD)].IsOpen

\* C9: a get_basler_camera call whose request has the identity fields of the
\* live handle returns that handle, disconnects nothing and constructs no
\* new handle, whatever the device kind.
C9_HandleReused ==
  (hist.called /\ hist.live /\ hist.sameIdentity)
     => (hist.ok /\ ~hist.created /\ ~hist.disconnected /\ hist.ret = CAMERA)

OpenHandles == {h \in Handles : is_open(hnd[h])}

\* C11: at most one Device Handle is open at any time, and an open handle is
\* the one recorded in CAMERA.
C11_AtMostOneOpen ==
  /\ Cardinality(OpenHandles) <= 1
  /\ \A h \in OpenHandles : h = CAMERA

\* the client is inside get_basler_camera
InGetBaslerCamera(c) ==
  cl[c].pc \in {"gb_check", "gb_disc", "gb_new", "gb_create", "gb_connect", "gb_ret"}

\* C13: two get_basler_camera calls that run at the same time with the same
\* configuration (one that a call on its own would reuse the handle for) never
\* both construct a handle, and once no handler is running every open handle
\* is the one recorded in CAMERA.
C13_DecideAndMutateAtomic ==
  /\ \A c, d \in Clients :
        (c # d /\ InGetBaslerCamera(c) /\ InGetBaslerCamera(d)
              /\ cl[c].req = ReqGigE /\ cl[d].req = ReqGigE)
           => ~(cl[c].made # 0 /\ cl[d].made # 0)
  /\ (\A c \in Clients : cl[c].pc = "idle") => (\A h \in OpenHandles : h = CAMERA)

\* the worker t is inside its retrieval (RetrieveResult and its retries)
Retrieving(t) == is_alive(thr[t]) /\ thr[t].pc \in {"retrieve", "backoff"}

C15_RollbackOnFailure ==
  (hist.called /\ ~hist.ok) => CAMERA = 0

C19_ClosedHandleRebuilt ==
  (hist.called /\ hist.closedAtCall) => (hist.created /\ hist.disconnected)

DeviceState(H) == <<H.IsOpen, H.IsGrabbing, H.TransmissionType, H.DestinationAddr,
                    H.DestinationPort, H.AcquisitionMode, H.PixelFormat, H.ExposureTimeAbs>>

\* the worker t is inside a RetrieveResult call
RetrieveInFlight(t) == thr[t].pc = "retrieve"

C22_ExitObservedMidRetry ==
  [][\A t \in Threads :
       thr[t].exit_event
          => /\ thr'[t].pc = "retrieve" => thr[t].pc = "retrieve"
             /\ thr'[t].pc = "backoff" => thr[t].pc = "backoff"]_vars

\* C23: a worker that is inside a retrieve call on a camera that another
\* call has closed, or whose grabbing another call has stopped, does not end
\* by an exception.
C23_ClosureTolerated ==
  [][\A t \in Threads :
       (RetrieveInFlight(t) /\ ~(hnd[Dev(t)].IsOpen /\ hnd[Dev(t)].IsGrabbing))
          => thr'[t].pc # "crashed"]_vars

\* the request asks for a destination address without Multicast
Conflict(p) == p.destination_ip_address # None /\ p.transmission_type # "Multicast"

\* the request is for a GigE camera
ForGigE(p) == p.serial_number # None /\ DeviceKind(p.serial_number) = "gige"

\* the call that hist records has raised out of get_basler_camera and has
\* issued no grab and entered no acquisition
RejectedBeforeAcquisition ==
  /\ ~hist.ok
  /\ \A c \in Clients :
        /\ cl[c].pc \in {"idle", "done"}
        /\ cl[c].grabs = 0
        /\ (Done(c) /\ cl[c].op \in {"get_basler_camera", "take_picture"}) => cl[c].res = "error"

\* C24 as claimed: a request with a destination address and a transmission
\* type other than Multicast fails in get_basler_camera, and no grab is issued
\* for it.
C24_ConflictRejected ==
  (hist.called /\ Conflict(hist.params)) => RejectedBeforeAcquisition

\* C24 as amended: the same for a request for a GigE camera.
C24_ConflictRejectedOnGigE ==
  (hist.called /\ Conflict(hist.params) /\ ForGigE(hist.params)) => RejectedBeforeAcquisition

\* C24 witness: a take_picture request for the GigE camera with the conflict
\* has ended by the exception of connect
C24_Witness ==
  /\ hist.called /\ Conflict(hist.params) /\ ForGigE(hist.params)
  /\ \E c \in Clients : Done(c) /\ cl[c].op = "take_picture" /\ cl[c].res = "error"

\* C25: a single-shot request issues at most one GrabOne, and when that
\* GrabOne has timed out, raised or failed the request ends with the error
\* response.
C25_SingleShotNotRetried ==
  \A c \in Clients :
     /\ cl[c].grabs <= 1
     /\ (Done(c) /\ cl[c].grab \in {"timeout", "exception", "failed"})
           => (cl[c].res = "failed" /\ HttpResponse(cl[c].res)[1] = 400)

\* C25 witness: a single-shot request whose one GrabOne timed out has ended
\* with the error result
C25_Witness ==
  \E c \in Clients :
     Done(c) /\ cl[c].op = "take_picture" /\ cl[c].grab = "timeout" /\ cl[c].grabs = 1

\* the calls that read the slot
SlotReaders == {"get_image", "get_latest_image", "get_image_info", "continuous"}

\* the thread t has been constructed and its slot is empty
SlotEmpty(t) == thr[t].pc \notin {"none", "gone"} /\ IsNone(thr[t].latest_image)

\* C26: the slot of a thread is empty when the thread is constructed and
\* stays empty until the worker stores its first record, and a reader that
\* has read the slot of a thread that is still empty has the empty result.
C26_EmptyUntilFirstPublish ==
  /\ [](\A t \in Threads : thr[t].pc = "start" => SlotEmpty(t))
  /\ [](\A c \in Clients :
          (Done(c) /\ cl[c].op \in SlotReaders /\ cl[c].res # "error"
              /\ cl[c].t # 0 /\ SlotEmpty(cl[c].t))
             => (cl[c].res = "empty" /\ cl[c].img = 0 /\ cl[c].ts = 0))
  /\ [][\A t \in Threads :
          (SlotEmpty(t) /\ ~IsNone(thr'[t].latest_image)) => Publishes(t)]_vars

\* C26 witness: a reader has the empty result from a running worker that has
\* not published yet
C26_Witness ==
  \E c \in Clients :
     /\ Done(c) /\ cl[c].op = "get_latest_image" /\ cl[c].res = "empty"
     /\ is_alive(thr[cl[c].t]) /\ thr[cl[c].t].counter > 0 /\ SlotEmpty(cl[c].t)

C28_HandleLifeCycle ==
  /\ []((\A c \in Clients : cl[c].pc \in {"idle", "done"})
           => (CAMERA # 0 => is_open(hnd[CAMERA])))
  /\ [][\A h \in Handles :
          (hnd[h]._camera /\ ~hnd[h].IsOpen) => ~hnd'[h].IsOpen]_vars

\* C29: after a timeout that is not later than the max_retries-th of its
\* tick the worker makes another attempt: the retrieval is given up only
\* when the first attempt and max_retries retries have timed out.
C29_RetriesAfterEachOfMaxTimeouts ==
  [][\A t \in Threads :
       (thr[t].pc = "backoff" /\ thr[t].retries <= max_retries)
          => thr'[t].pc \in {"backoff", "retrieve"}]_vars

\* C30: in its backoff sleep after the k-th consecutive timeout of a tick the
\* worker waits k backoff units; the retry count of a tick starts at zero;
\* and no backoff wait follows a retrieval that returned.
C30_BackoffLinear ==
  /\ [](\A t \in Threads :
          /\ thr[t].pc = "backoff"
                => (thr[t].retries >= 1 /\ thr[t].wait = thr[t].retries * backoff_factor)
          /\ thr[t].pc # "backoff" => thr[t].wait = 0)
  /\ [][\A t \in Threads :
          /\ thr'[t].counter = thr[t].counter + 1 => thr'[t].retries = 0
          /\ (thr[t].pc = "retrieve" /\ thr'[t].pc = "backoff")
                => thr'[t].retries = thr[t].retries + 1
          /\ (thr[t].pc = "retrieve" /\ thr'[t].pc \in {"publish", "sleep"})
                => (thr'[t].wait = 0 /\ thr'[t].retries = thr[t].retries)]_vars

\* C30 witness: a worker in its second tick waits two units after the second
\* timeout of that tick
C30_Witness ==
  \E t \in Threads :
     thr[t].pc = "backoff" /\ thr[t].counter = 2 /\ thr[t].retries = 2
        /\ thr[t].wait = 2 * backoff_factor

\* the worker t begins a tick in this step
Ticks(t) == thr[t].pc = "loop" /\ thr'[t].counter = thr[t].counter + 1

\* C31: a tick that finds the camera not grabbing goes straight to the sleep
\* and leaves the slot as it is; after the sleep the worker is at the loop
\* test again, and with the exit flag set it leaves the loop there.
C31_IdleTick ==
  [][\A t \in Threads :
       /\ (Ticks(t) /\ ~hnd[Dev(t)].IsGrabbing)
             => (thr'[t].pc = "sleep" /\ thr'[t].latest_image = thr[t].latest_image)
       /\ (thr[t].pc = "sleep" /\ thr'[t].pc # "sleep")
             => (thr'[t].pc = "loop" /\ thr'[t].latest_image = thr[t].latest_image)
       /\ (thr[t].pc = "loop" /\ thr[t].exit_event /\ thr'[t].pc # "loop")
             => thr'[t].pc = "exited"]_vars

\* C31 witness: a worker whose flag is clear sleeps in a tick on a camera
\* that does not grab
C31_Witness ==
  \E t \in Threads :
     /\ thr[t].pc = "sleep" /\ ~thr[t].exit_event /\ thr[t].counter >= 2
     /\ ~hnd[Dev(t)].IsGrabbing /\ ~IsNone(thr[t].latest_image)

\* client c is inside the polling loop of get_image
Waiting(c) == cl[c].pc \in {"gi_base", "gi_poll", "gi_img", "gi_ts"}

\* C32: a get_image call has a budget of at least 2 polls, never polls more
\* often than its budget, and ends, whatever the worker does.
C32_WaitTerminates ==
  /\ [](\A c \in Clients :
          Waited(c) => /\ cl[c].n_max >= 2
                       /\ cl[c].i <= cl[c].n_max
                       /\ cl[c].pc \in {"gi_base", "gi_poll"} => cl[c].i < cl[c].n_max)
  /\ \A c \in Clients : Waiting(c) ~> Done(c)

\* C32 witness: a wait on a worker that has ended has used its whole budget
\* and returned the empty result
C32_Witness ==
  \E c \in Clients :
     /\ Done(c) /\ Waited(c) /\ cl[c].res = "empty" /\ cl[c].i = cl[c].n_max
     /\ ~is_alive(thr[cl[c].t])

\* client c is inside the join of stop_camera_thread
Joining(c) == cl[c].pc \in {"join", "cb_join"}

\* C33: a worker whose exit flag has been set ends; the join of
\* stop_camera_thread returns; and it has returned only when the worker has
\* ended.
C33_StopJoins ==
  /\ \A t \in Threads : (thr[t].exit_event /\ is_alive(thr[t])) ~> ~is_alive(thr[t])
  /\ \A c \in Clients : Joining(c) ~> ~Joining(c)
  /\ [](\A c \in Clients :
          (Done(c) /\ cl[c].op = "stop_camera_thread") => ~is_alive(thr[cl[c].t]))
  /\ [][\A c \in Clients :
          (Joining(c) /\ ~Joining(c)') => ~is_alive(thr[cl[c].t])]_vars

\* C33 witness: stop_camera_thread has returned after stopping a worker that
\* was in its loop, and the worker has left the loop
C33_Witness ==
  \E c \in Clients :
     /\ Done(c) /\ cl[c].op = "stop_camera_thread"
     /\ thr[cl[c].t].pc = "exited" /\ thr[cl[c].t].counter >= 1

\* client c takes a step that reads the slot: a baseline, poll or result read
\* of get_image, or the read of get_latest_image
ReadsSlot(c) ==
  /\ cl[c].pc \in {"gi_base", "gi_poll", "gi_img", "gi_ts", "gl_read"}
  /\ cl'[c] # cl[c]

\* C34: the worker stores a record only while it holds the slot's lock, and a
\* step of get_latest_image or get_image that reads the slot is taken only
\* while that reader holds the lock.
C34_AccessUnderLock ==
  [][/\ \A t \in Threads : Publishes(t) => thr[t].lock = "worker"
     /\ \A c \in Clients : ReadsSlot(c) => thr[cl[c].t].lock = c]_vars

\* the three readers of the slot
ReaderOps == {"get_image", "get_latest_image", "get_image_info"}

\* client c takes a step of get_image, get_latest_image or get_image_info
ReaderStep(c) ==
  /\ cl'[c] # cl[c]
  /\ \/ cl[c].pc \in {"get_image", "gi_base", "gi_poll", "gi_img", "gi_ts",
                      "gl_read", "ii_ts", "ii_cnt"}
     \/ cl[c].pc = "idle" /\ cl'[c].op \in ReaderOps

\* C35: no step of get_image, get_latest_image or get_image_info changes the
\* slot or the sequence counter of any loop.
C35_ReadersDoNotWrite ==
  [][\A c \in Clients : ReaderStep(c) =>
        \A t \in Threads : /\ thr'[t].latest_image = thr[t].latest_image
                           /\ thr'[t].counter = thr[t].counter]_vars

\* C35 witness: a reader has returned a record and the slot still holds the
\* record the worker published last
C35_Witness ==
  \E c \in Clients :
     /\ Done(c) /\ cl[c].op = "get_latest_image" /\ cl[c].res = "record"
     /\ ~IsNone(thr[cl[c].t].latest_image)
     /\ thr[cl[c].t].latest_image.counter = thr[cl[c].t].counter
     /\ thr[cl[c].t].counter >= 2

\* C36: a record that get_image returns is newer than the slot was at the
\* call's first read, and newer than the record that the client's previous
\* get_image on the same loop returned.
C36_Fresh ==
  \A c \in Clients :
     (Done(c) /\ Waited(c) /\ cl[c].res = "record")
        => /\ cl[c].img > cl[c].first /\ cl[c].ts > cl[c].first
           /\ cl[c].img > cl[c].prev /\ cl[c].ts > cl[c].prev

\* C36 witness: the second of two successive get_image calls on one loop has
\* returned a record, after the first had returned one
C36_Witness ==
  \E c \in Clients :
     /\ Done(c) /\ Waited(c) /\ cl[c].res = "record"
     /\ cl[c].prev >= 1 /\ cl[c].first >= cl[c].prev /\ cl[c].img > cl[c].prev

\* the fields of a request other than the exposure time
NonExposureFields(p) == DOMAIN p \ {"exposure_time_microseconds"}

\* client c enters get_basler_camera in this step
CallsGetBaslerCamera(c) ==
  cl[c].pc = "idle" /\ cl'[c].op \in {"get_basler_camera", "take_picture"}

\* C37: a call of get_basler_camera that finds a created handle builds a new
\* one exactly when some requested field other than the exposure time differs
\* from the value read from that handle (or cannot be read from it).
C37_RebuildOnAnyDifference ==
  [][\A c \in Clients :
       (CallsGetBaslerCamera(c) /\ CAMERA # 0 /\ Bool(hnd[CAMERA])) =>
          LET p == hist'.params
              H == open(hnd[CAMERA])
              differs == \E ky \in NonExposureFields(p) :
                            ~GetAttr(H, ky).ok \/ GetAttr(H, ky).val # p[ky]
          IN  /\ hist'.created <=> differs
              /\ hist'.created => (CAMERA' # CAMERA /\ ~hnd'[CAMERA].IsOpen)
              /\ ~hist'.created => CAMERA' = CAMERA]_vars

\* C37 witness: an open handle has been replaced for a request that has the
\* identity fields of the handle and another timeout_ms or convert_to_format
C37_Witness ==
  /\ hist.called /\ hist.ok /\ hist.created /\ hist.disconnected
  /\ hist.live /\ hist.sameIdentity /\ ~hist.sameSettings

\* the worker t has started streaming, its exit flag is clear and its camera
\* is not streaming
StreamingLost(t) ==
  /\ is_alive(thr[t]) /\ thr[t].pc # "start" /\ ~thr[t].exit_event
  /\ ~hnd[Dev(t)].IsGrabbing

\* C38: a worker turns streaming on only in its first step; once its camera
\* has left streaming with the exit flag clear, and as long as the loop is
\* not replaced, the camera stays out of streaming and the worker stays
\* alive, and between retrievals it only idles and leaves the slot alone.
C38_StartsOnceThenIdles ==
  [][\A t \in Threads :
       /\ (is_alive(thr[t]) /\ thr'[t] # thr[t]
             /\ ~hnd[Dev(t)].IsGrabbing /\ hnd'[Dev(t)].IsGrabbing)
          => thr[t].pc = "start"
       /\ (StreamingLost(t) /\ thr'[t].camera = thr[t].camera)
          => /\ is_alive(thr'[t])
             /\ ~hnd'[Dev(t)].IsGrabbing
             /\ thr[t].pc \in {"loop", "sleep"}
                  => /\ thr'[t].pc \in {"loop", "sleep"}
                     /\ thr'[t].latest_image = thr[t].latest_image]_vars

\* C39: the handle that a call of get_basler_camera returns without an
\* error is open when the call returns.
C39_ReturnedHandleOpen ==
  [][\A c \in Clients :
       (CallsGetBaslerCamera(c) /\ hist'.ok)
          => (CAMERA' # 0 /\ hist'.ret = CAMERA' /\ is_open(hnd'[CAMERA']))]_vars

\* C39 witness: a call has found the live handle closed, has reused it, and
\* has returned it open
C39_Witness ==
  /\ hist.called /\ hist.ok /\ ~hist.created /\ hist.closedAtCall
  /\ \E c \in Clients : Done(c) /\ cl[c].op = "get_basler_camera"
                         /\ cl[c].cam = Wrapper(hist.ret)
  /\ is_open(hnd[hist.ret])

\* client c is about to run take_photo on a handle whose timeout is shorter
\* than the exposure time the request asks for
ExposureExceedsTimeout(c) ==
  cl[c].pc = "take_photo" /\ hnd[cl[c].cam[2]].timeout_ms * 1000 < cl[c].exp

\* C40: take_photo with a timeout shorter than the exposure time raises
\* before it stops the grabbing and before any GrabOne; take_picture then
\* disconnects the handle and ends without an image.
C40_RefusesLongExposure ==
  [][\A c \in Clients :
       (ExposureExceedsTimeout(c) /\ cl'[c].pc # "take_photo") =>
          LET h == cl[c].cam[2]
              r == BeforeGrab(hnd[h], cl[c].exp)
          IN  /\ ~r.ok
              /\ r.H.IsGrabbing = hnd[h].IsGrabbing
              /\ cl'[c].grabs = 0 /\ cl'[c].grab = "none"
              /\ Done(c)' /\ cl'[c].res = "failed"
              /\ HttpResponse(cl'[c].res)[1] = 400
              /\ ~is_open(hnd'[h])]_vars

\* C40 witness: take_photo has refused on a handle that was streaming for a
\* worker, and the handle is disconnected
C40_Witness ==
  \E c \in Clients : \E t \in Threads :
     /\ Done(c) /\ cl[c].op = "take_picture" /\ cl[c].res = "failed"
     /\ cl[c].grabs = 0 /\ cl[c].grab = "none"
     /\ hist.params = ReqGigEShort /\ hist.ok
     /\ thr[t].camera = Pylon(hist.ret) /\ thr[t].counter >= 1
     /\ ~is_open(hnd[hist.ret])

====
